---- MODULE Spec2Model ----
(***************************************************************************)
(* Model of src/Task1.py: the validated fields (Phone, Birthday), Record,  *)
(* AddressBook, the command handlers wrapped by input_error, parse_input   *)
(* and the main loop.                                                      *)
(*                                                                         *)
(* State: data is AddressBook.data; last is the latest call or input line  *)
(* with its arguments and its outcome; pc is "lib" while the module is     *)
(* used as a library and the position of main otherwise; today is          *)
(* datetime.date.today().                                                  *)
(*                                                                         *)
(* Specifications: Spec (add_record and del on an AddressBook), RecordSpec *)
(* (the methods of one Record), PhoneSpec (the Phone constructor),         *)
(* WeekSpec (get_birthdays_per_week) and MainSpec (the main loop).         *)
(*                                                                         *)
(* A Python str is a sequence of characters; a character is a one-letter   *)
(* string, except "sup2", which stands for the single character U+00B2     *)
(* (superscript two).  None stands where a str could, so it is a sequence  *)
(* too, of one element that is no character.  An exception is named by its *)
(* class, and NoException says that the call returned.                     *)
(***************************************************************************)
EXTENDS Integers, Sequences, FiniteSets, TLC

VARIABLES data, last, pc, today

vars == <<data, last, pc, today>>

None == <<"None">>

NoException == "NoException"

(***************************************************************************)
(* Characters and strings                                                  *)
(***************************************************************************)
DecimalDigits == <<"0", "1", "2", "3", "4", "5", "6", "7", "8", "9">>

IsDecimalChar(c) == \E i \in 1..Len(DecimalDigits) : DecimalDigits[i] = c

\* value of a decimal digit character
DigitValue(c) == (CHOOSE i \in 1..Len(DecimalDigits) : DecimalDigits[i] = c) - 1

DigitChar(n) == DecimalDigits[n + 1]

\* characters for which str.isdigit is true: the decimal digits and the
\* digit-like characters that are no decimal digits, such as U+00B2
IsDigitChar(c) == IsDecimalChar(c) \/ c = "sup2"

IsSpaceChar(c) == c = " "

\* str.isdigit: every character is a digit and there is at least one
RECURSIVE AllDigitChars(_)
AllDigitChars(s) ==
    IF s = <<>> THEN TRUE
    ELSE IsDigitChar(Head(s)) /\ AllDigitChars(Tail(s))

isdigit(s) == Len(s) > 0 /\ AllDigitChars(s)

RECURSIVE Repeat(_, _)
Repeat(c, n) == IF n = 0 THEN <<>> ELSE <<c>> \o Repeat(c, n - 1)

RECURSIVE StringsUpTo(_, _)
StringsUpTo(alphabet, n) ==
    IF n = 0 THEN {<<>>}
    ELSE LET shorter == StringsUpTo(alphabet, n - 1)
         IN  shorter \cup {<<c>> \o s : c \in alphabet, s \in {t \in shorter : Len(t) = n - 1}}

(***************************************************************************)
(* Phone                                                                   *)
(***************************************************************************)
MaxPhoneLen == 10

\* validate_phone with < for <=
validate_phone_off_by_one(value) == Len(value) < MaxPhoneLen /\ isdigit(value)

\* Phone.validate_phone
validate_phone(value) == Len(value) <= MaxPhoneLen /\ isdigit(value)

\* the outcome of a constructor whose validation gave valid: the object, or
\* the exception raised
Validated(value, valid) ==
    IF valid THEN [raised |-> NoException, value |-> value]
    ELSE [raised |-> "ValueError", value |-> None]

\* Phone.__init__
Phone(value) == Validated(value, validate_phone(value))

\* a phone value as the specification words it: decimal digits, at most ten
OnlyDecimalDigits(value) ==
    Len(value) <= MaxPhoneLen /\ \A i \in 1..Len(value) : IsDecimalChar(value[i])

(***************************************************************************)
(* Birthday                                                                *)
(***************************************************************************)
\* str.split(sep) for a one-character separator
RECURSIVE SplitOn(_, _)
SplitOn(s, sep) ==
    IF \A i \in 1..Len(s) : s[i] # sep THEN <<s>>
    ELSE LET k == CHOOSE i \in 1..Len(s) : s[i] = sep /\ \A j \in 1..(i - 1) : s[j] # sep
         IN  <<SubSeq(s, 1, k - 1)>> \o SplitOn(SubSeq(s, k + 1, Len(s)), sep)

\* int(str) of a decimal numeral, which int() strips of surrounding blanks
RECURSIVE DecimalValue(_)
DecimalValue(s) ==
    IF s = <<>> THEN 0
    ELSE 10 * DecimalValue(SubSeq(s, 1, Len(s) - 1)) + DigitValue(s[Len(s)])

RECURSIVE LStrip(_)
LStrip(s) == IF s # <<>> /\ IsSpaceChar(Head(s)) THEN LStrip(Tail(s)) ELSE s

RECURSIVE RStrip(_)
RStrip(s) ==
    IF s # <<>> /\ IsSpaceChar(s[Len(s)]) THEN RStrip(SubSeq(s, 1, Len(s) - 1)) ELSE s

strip(s) == RStrip(LStrip(s))

int(s) == DecimalValue(strip(s))

\* strptime's pattern for %d: 3[0-1] | [1-2]\d | 0[1-9] | [1-9] | " "[1-9]
MatchesDay(s) ==
    \/ Len(s) = 2 /\ s[1] = "3" /\ s[2] \in {"0", "1"}
    \/ Len(s) = 2 /\ s[1] \in {"1", "2"} /\ IsDecimalChar(s[2])
    \/ Len(s) = 2 /\ s[1] \in {"0", " "} /\ IsDecimalChar(s[2]) /\ s[2] # "0"
    \/ Len(s) = 1 /\ IsDecimalChar(s[1]) /\ s[1] # "0"

\* strptime's pattern for %m: 1[0-2] | 0[1-9] | [1-9]
MatchesMonth(s) ==
    \/ Len(s) = 2 /\ s[1] = "1" /\ s[2] \in {"0", "1", "2"}
    \/ Len(s) = 2 /\ s[1] = "0" /\ IsDecimalChar(s[2]) /\ s[2] # "0"
    \/ Len(s) = 1 /\ IsDecimalChar(s[1]) /\ s[1] # "0"

\* strptime's pattern for %Y: \d\d\d\d
MatchesYear(s) == Len(s) = 4 /\ \A i \in 1..4 : IsDecimalChar(s[i])

IsLeap(year) == year % 4 = 0 /\ (year % 100 # 0 \/ year % 400 = 0)

DaysInMonth(year, month) ==
    IF month = 2 THEN (IF IsLeap(year) THEN 29 ELSE 28)
    ELSE IF month \in {4, 6, 9, 11} THEN 30 ELSE 31

\* datetime.date(year, month, day) exists
IsDate(year, month, day) ==
    /\ year >= 1
    /\ month \in 1..12
    /\ day >= 1 /\ day <= DaysInMonth(year, month)

\* datetime.datetime.strptime(value, '%d.%m.%Y') returns
strptime_ok(value) ==
    LET parts == SplitOn(value, ".")
    IN  /\ Len(parts) = 3
        /\ MatchesDay(parts[1])
        /\ MatchesMonth(parts[2])
        /\ MatchesYear(parts[3])
        /\ IsDate(int(parts[3]), int(parts[2]), int(parts[1]))

\* Birthday.validate_birthday
validate_birthday(value) == strptime_ok(value)

\* Birthday.__init__
Birthday(value) == Validated(value, validate_birthday(value))

\* today + datetime.timedelta(days=n)
RECURSIVE AddDays(_, _)
AddDays(d, n) ==
    IF n = 0 THEN d
    ELSE IF d.day < DaysInMonth(d.year, d.month)
         THEN AddDays([d EXCEPT !.day = d.day + 1], n - 1)
    ELSE IF d.month < 12
         THEN AddDays([year |-> d.year, month |-> d.month + 1, day |-> 1], n - 1)
    ELSE AddDays([year |-> d.year + 1, month |-> 1, day |-> 1], n - 1)

(***************************************************************************)
(* Record: name is Name.value, phones the values of the Phone objects in   *)
(* list order, birthday is Birthday.value, or None for no Birthday object. *)
(***************************************************************************)
\* a call's outcome on a Record: the Record afterwards and the exception
Outcome(record, raised) == [record |-> record, raised |-> raised]

\* `if birthday:` is false for None and for the empty string
Truthy(value) == value # None /\ value # <<>>

\* self.birthday = b, unless the constructor of b raised
SetBirthday(record, b) ==
    IF b.raised # NoException THEN Outcome(record, b.raised)
    ELSE Outcome([record EXCEPT !.birthday = b.value], NoException)

\* Record.add_birthday
Record_add_birthday(record, birthday) == SetBirthday(record, Birthday(birthday))

\* Record.__init__
Record(name, birthday) ==
    LET fresh == [name |-> name, phones |-> <<>>, birthday |-> None]
    IN  IF Truthy(birthday) THEN Record_add_birthday(fresh, birthday)
        ELSE Outcome(fresh, NoException)

\* self.phones.append(p), unless the constructor of p raised
AppendPhone(record, p) ==
    IF p.raised # NoException THEN Outcome(record, p.raised)
    ELSE Outcome([record EXCEPT !.phones = Append(@, p.value)], NoException)

\* Record.add_phone
add_phone(record, phone) == AppendPhone(record, Phone(phone))

RemoveAt(s, i) == SubSeq(s, 1, i - 1) \o SubSeq(s, i + 1, Len(s))

\* the for loop of delete_phone: the list iterator is at index i of the
\* list as it is now, and remove(p) takes out the object it just yielded
RECURSIVE delete_loop(_, _, _)
delete_loop(phones, i, phone) ==
    IF i > Len(phones) THEN phones
    ELSE IF phones[i] = phone THEN delete_loop(RemoveAt(phones, i), i + 1, phone)
    ELSE delete_loop(phones, i + 1, phone)

\* Record.delete_phone
delete_phone(record, phone) ==
    Outcome([record EXCEPT !.phones = delete_loop(@, 1, phone)], NoException)

\* edit_phone with a break after the first match
RECURSIVE edit_loop_first_only(_, _, _, _)
edit_loop_first_only(phones, i, old_phone, new_phone) ==
    IF i > Len(phones) THEN phones
    ELSE IF phones[i] = old_phone THEN [phones EXCEPT ![i] = new_phone]
    ELSE edit_loop_first_only(phones, i + 1, old_phone, new_phone)

\* the for loop of edit_phone
RECURSIVE edit_loop(_, _, _, _)
edit_loop(phones, i, old_phone, new_phone) ==
    IF i > Len(phones) THEN phones
    ELSE IF phones[i] = old_phone
         THEN edit_loop([phones EXCEPT ![i] = new_phone], i + 1, old_phone, new_phone)
    ELSE edit_loop(phones, i + 1, old_phone, new_phone)

\* Record.edit_phone
edit_phone(record, old_phone, new_phone) ==
    Outcome([record EXCEPT !.phones = edit_loop(@, 1, old_phone, new_phone)], NoException)

\* Record.find_phone: the value of the Phone returned, or None
find_phone(record, phone) ==
    IF \E i \in 1..Len(record.phones) : record.phones[i] = phone THEN phone ELSE None

(***************************************************************************)
(* AddressBook: data is the dict of UserDict, an insertion-ordered         *)
(* sequence of items [key, record] with distinct keys.                     *)
(***************************************************************************)
Keys(d) == {d[i].key : i \in 1..Len(d)}

Has(d, key) == key \in Keys(d)

IndexOf(d, key) == CHOOSE i \in 1..Len(d) : d[i].key = key

\* data[key], for a key of the dict
Get(d, key) == d[IndexOf(d, key)].record

\* data[key] = record: a new key goes last, a known key keeps its place
SetItem(d, key, record) ==
    IF Has(d, key) THEN [d EXCEPT ![IndexOf(d, key)].record = record]
    ELSE Append(d, [key |-> key, record |-> record])

\* del data[key], for a key of the dict
DelItem(d, key) == RemoveAt(d, IndexOf(d, key))

\* the loop `for phone in phones: record.add_phone(phone)` on the outcome
\* of Record(name, birthday); an exception ends the call
RECURSIVE add_phones(_, _)
add_phones(made, phones) ==
    IF made.raised # NoException \/ phones = <<>> THEN made
    ELSE add_phones(add_phone(made.record, Head(phones)), Tail(phones))

\* a call's outcome on the AddressBook: the dict afterwards and the exception
BookOutcome(d, raised) == [data |-> d, raised |-> raised]

\* add_record storing the Record before its phones are added
StoreRecord_partial(d, name, filled) ==
    BookOutcome(SetItem(d, name, filled.record), filled.raised)

\* add_record adding the phones to the Record already stored under name
StoreRecord_merges(d, name, filled) ==
    IF filled.raised # NoException THEN BookOutcome(d, filled.raised)
    ELSE IF Has(d, name)
         THEN BookOutcome(SetItem(d, name, [filled.record EXCEPT
                             !.phones = Get(d, name).phones \o @]), NoException)
    ELSE BookOutcome(SetItem(d, name, filled.record), NoException)

\* self.data[name] = record, which an exception raised before it skips
StoreRecord(d, name, filled) ==
    IF filled.raised # NoException THEN BookOutcome(d, filled.raised)
    ELSE BookOutcome(SetItem(d, name, filled.record), NoException)

\* AddressBook.add_record
add_record(d, name, phones, birthday) ==
    StoreRecord(d, name, add_phones(Record(name, birthday), phones))

\* UserDict.__delitem__
delitem(d, name) ==
    IF Has(d, name) THEN BookOutcome(DelItem(d, name), NoException)
    ELSE BookOutcome(d, "KeyError")

\* get_birthdays_per_week with > for >= in its first branch
in_week_strict(value, day, month, next_month) ==
    LET parts == SplitOn(value, ".")
        b_day == int(parts[1])
        b_month == int(parts[2])
    IN  IF b_day > day /\ b_month = month THEN TRUE
        ELSE IF b_day < day /\ b_month = next_month THEN TRUE
        ELSE FALSE

\* get_birthdays_per_week with today.month for next_week.month
in_week_this_month(value, day, month, next_month) ==
    LET parts == SplitOn(value, ".")
        b_day == int(parts[1])
        b_month == int(parts[2])
    IN  IF b_day >= day /\ b_month = month THEN TRUE
        ELSE IF b_day < day /\ b_month = month THEN TRUE
        ELSE FALSE

\* the two branches of get_birthdays_per_week for one Record with a birthday
in_week(value, day, month, next_month) ==
    LET parts == SplitOn(value, ".")
        b_day == int(parts[1])
        b_month == int(parts[2])
    IN  IF b_day >= day /\ b_month = month THEN TRUE
        ELSE IF b_day < day /\ b_month = next_month THEN TRUE
        ELSE FALSE

\* the loop of get_birthdays_per_week over data.values() from item i on
RECURSIVE birthdays_from(_, _, _, _)
birthdays_from(d, i, day, next_week) ==
    IF i > Len(d) THEN <<>>
    ELSE LET record == d[i].record
             rest == birthdays_from(d, i + 1, day, next_week)
         IN  IF record.birthday # None
                /\ in_week(record.birthday, day.day, day.month, next_week.month)
             THEN <<record>> \o rest
             ELSE rest

\* AddressBook.get_birthdays_per_week, with datetime.date.today() = day
get_birthdays_per_week(d, day) == birthdays_from(d, 1, day, AddDays(day, 7))

(***************************************************************************)
(* Inputs                                                                  *)
(***************************************************************************)
Ann == <<"A", "n", "n">>
Bob == <<"B", "o", "b">>
Names == {Ann, Bob}

P111 == <<"1", "1", "1">>
P222 == <<"2", "2", "2">>
P12a == <<"1", "2", "a">>
PhoneInputs == {P111, P222, P12a}

\* the phones of one add_record call: every list of at most two inputs, so
\* that a malformed phone comes first, second or not at all
PhoneLists ==
    {<<>>} \cup {<<p>> : p \in PhoneInputs}
           \cup {<<p, q>> : p \in PhoneInputs, q \in PhoneInputs}

B15_06_1990 == <<"1", "5", ".", "0", "6", ".", "1", "9", "9", "0">>
B31_02_2020 == <<"3", "1", ".", "0", "2", ".", "2", "0", "2", "0">>
BirthdayInputs == {B15_06_1990, B31_02_2020, <<>>}

Day(year, month, day) == [year |-> year, month |-> month, day |-> day]

(***************************************************************************)
(* The module used as a library (line 234: main is not run): any sequence  *)
(* of add_record and del calls on one AddressBook.  last is the latest     *)
(* call, its arguments and the exception it raised.                        *)
(***************************************************************************)
LibInit ==
    /\ data = <<>>
    /\ last = [op |-> "AddressBook"]
    /\ pc = "lib"
    /\ today = Day(2024, 6, 10)

Call_add_record(name, phones, birthday) ==
    \E r \in {add_record(data, name, phones, birthday)} :
        /\ data' = r.data
        /\ last' = [op |-> "add_record", name |-> name, phones |-> phones,
                    birthday |-> birthday, raised |-> r.raised]
        /\ UNCHANGED <<pc, today>>

Call_delitem(name) ==
    \E r \in {delitem(data, name)} :
        /\ data' = r.data
        /\ last' = [op |-> "delitem", name |-> name, raised |-> r.raised]
        /\ UNCHANGED <<pc, today>>

LibNext ==
    \/ \E name \in Names, phones \in PhoneLists, birthday \in BirthdayInputs \cup {None} :
          Call_add_record(name, phones, birthday)
    \/ \E name \in Names : Call_delitem(name)

Spec == LibInit /\ [][LibNext]_vars

(***************************************************************************)
(* One Record of the AddressBook and the calls of its methods.             *)
(***************************************************************************)
MaxPhones == 3      \* Phone objects in the Record

RecordInit ==
    /\ data = add_record(<<>>, Ann, <<>>, None).data
    /\ last = [op |-> "add_record", name |-> Ann, phones |-> <<>>,
               birthday |-> None, raised |-> NoException]
    /\ pc = "lib"
    /\ today = Day(2024, 6, 10)

\* a method of the Record data[name], which changes the Record in place;
\* before is the phone list the call found
OnRecord(name, r, call) ==
    /\ data' = SetItem(data, name, r.record)
    /\ last' = call @@ [name |-> name, raised |-> r.raised,
                        before |-> Get(data, name).phones]
    /\ UNCHANGED <<pc, today>>

Call_add_phone(name, phone) ==
    /\ Has(data, name)
    /\ Len(Get(data, name).phones) < MaxPhones
    /\ OnRecord(name, add_phone(Get(data, name), phone),
                [op |-> "add_phone", phone |-> phone])

Call_delete_phone(name, phone) ==
    /\ Has(data, name)
    /\ OnRecord(name, delete_phone(Get(data, name), phone),
                [op |-> "delete_phone", phone |-> phone])

Call_edit_phone(name, old_phone, new_phone) ==
    /\ Has(data, name)
    /\ OnRecord(name, edit_phone(Get(data, name), old_phone, new_phone),
                [op |-> "edit_phone", old_phone |-> old_phone, new_phone |-> new_phone])

Call_add_birthday(name, birthday) ==
    /\ Has(data, name)
    /\ OnRecord(name, Record_add_birthday(Get(data, name), birthday),
                [op |-> "add_birthday", birthday |-> birthday])

Call_find_phone(name, phone) ==
    /\ Has(data, name)
    /\ last' = [op |-> "find_phone", name |-> name, phone |-> phone,
                raised |-> NoException, before |-> Get(data, name).phones,
                ret |-> find_phone(Get(data, name), phone)]
    /\ UNCHANGED <<data, pc, today>>

RecordNext ==
    \/ \E name \in Names, phone \in PhoneInputs : Call_add_phone(name, phone)
    \/ \E name \in Names, phone \in PhoneInputs : Call_delete_phone(name, phone)
    \/ \E name \in Names, old_phone \in PhoneInputs, new_phone \in PhoneInputs :
          Call_edit_phone(name, old_phone, new_phone)
    \/ \E name \in Names, birthday \in BirthdayInputs : Call_add_birthday(name, birthday)
    \/ \E name \in Names, phone \in PhoneInputs : Call_find_phone(name, phone)

RecordSpec == RecordInit /\ [][RecordNext]_vars

(***************************************************************************)
(* The Phone constructor applied to one string.                            *)
(***************************************************************************)
MaxHead == 2        \* characters of any kind at the head of a string
MaxRun == 11        \* the digits "1" that follow them

PhoneAlphabet == {"7", "a", "+", "sup2"}

PhoneStrings ==
    {head \o Repeat("1", n) :
        head \in StringsUpTo(PhoneAlphabet, MaxHead), n \in 0..MaxRun}

PhoneInit ==
    /\ data = <<>>
    /\ last \in {[op |-> "str", value |-> value] : value \in PhoneStrings}
    /\ pc = "lib"
    /\ today = Day(2024, 6, 10)

Call_Phone ==
    /\ last.op = "str"
    /\ last' = [op |-> "Phone", value |-> last.value, raised |-> Phone(last.value).raised]
    /\ UNCHANGED <<data, pc, today>>

PhoneSpec == PhoneInit /\ [][Call_Phone]_vars

\* C7 as stated: Phone(s) is constructed if and only if every character of s
\* is a decimal digit and len(s) <= 10 (so for the empty string too), and
\* raises the validation error otherwise.
C7_AcceptsDecimalUpToTen ==
    last.op = "Phone" =>
        /\ last.raised \in {NoException, "ValueError"}
        /\ last.raised = NoException <=> OnlyDecimalDigits(last.value)

\* C7 amended: Phone(s) is constructed if and only if s is not empty, every
\* character of s is a digit for str.isdigit (a decimal digit, or a digit that
\* is no decimal such as U+00B2) and len(s) <= 10, and raises the validation
\* error otherwise: the empty string, an 11-digit string and a string with a
\* non-digit are rejected.
C7_AcceptsNonEmptyDigitsUpToTen ==
    last.op = "Phone" =>
        /\ last.raised \in {NoException, "ValueError"}
        /\ last.raised = NoException <=>
              /\ Len(last.value) >= 1
              /\ Len(last.value) <= MaxPhoneLen
              /\ \A i \in 1..Len(last.value) : IsDigitChar(last.value[i])

\* the empty string, rejected
C7_Witness ==
    /\ last.op = "Phone"
    /\ last.value = <<>>
    /\ last.raised = "ValueError"

(***************************************************************************)
(* get_birthdays_per_week on the AddressBook that two add_record calls     *)
(* built, on any day of two years.                                         *)
(***************************************************************************)
TodayYears == {2023, 2024}
BirthDays == {1, 15, 31}
BirthMonths == {1, 6, 12}
BirthYears == {1990, 2000}

Dates ==
    {date \in [year : TodayYears, month : 1..12, day : 1..31] :
        IsDate(date.year, date.month, date.day)}

\* the string a user types for a day, a month and a year: DD.MM.YYYY
BirthdayString(d, m, y) ==
    <<DigitChar(d \div 10), DigitChar(d % 10), ".",
      DigitChar(m \div 10), DigitChar(m % 10), ".",
      DigitChar(y \div 1000), DigitChar((y \div 100) % 10),
      DigitChar((y \div 10) % 10), DigitChar(y % 10)>>

BirthdayStrings ==
    {BirthdayString(d, m, y) : d \in BirthDays, m \in BirthMonths, y \in BirthYears}

\* add_record(name, birthday=birthday), the AddressBook staying as it was when
\* the call raises
WithBirthday(d, name, birthday) == add_record(d, name, <<>>, birthday).data

WeekInit ==
    /\ data \in {WithBirthday(WithBirthday(<<>>, Ann, a), Bob, b) :
                   a \in BirthdayStrings \cup {None}, b \in BirthdayStrings \cup {None}}
    /\ last = [op |-> "add_record"]
    /\ pc = "lib"
    /\ today \in Dates

Call_get_birthdays_per_week ==
    /\ last.op # "get_birthdays_per_week"
    /\ last' = [op |-> "get_birthdays_per_week",
                ret |-> get_birthdays_per_week(data, today)]
    /\ UNCHANGED <<data, pc, today>>

WeekSpec == WeekInit /\ [][Call_get_birthdays_per_week]_vars

\* the month of today + 7 days
MonthInAWeek ==
    IF today.day + 7 <= DaysInMonth(today.year, today.month) THEN today.month
    ELSE IF today.month = 12 THEN 1 ELSE today.month + 1

\* the birthday was typed for a day and a month that P holds of
TypedFor(value, P(_, _)) ==
    \E d \in BirthDays, m \in BirthMonths, y \in BirthYears :
        value = BirthdayString(d, m, y) /\ P(d, m)

Returned(record) == \E j \in 1..Len(last.ret) : last.ret[j] = record

\* the predicate of the specification on a birthday's day and month
InWeek(d, m) ==
    \/ d >= today.day /\ m = today.month
    \/ d < today.day /\ m = MonthInAWeek

\* C4: get_birthdays_per_week returns a Record if and only if it has a
\* birthday whose day and month satisfy (day >= today.day and month =
\* today.month) or (day < today.day and month = next_week.month), whatever
\* the year; a Record without a birthday is not returned, and no Record is
\* returned twice.
C4_ReturnsThePredicate ==
    last.op = "get_birthdays_per_week" =>
        /\ \A i \in 1..Len(data) :
              Returned(data[i].record) <=>
                  /\ data[i].record.birthday # None
                  /\ TypedFor(data[i].record.birthday, InWeek)
        /\ \A j \in 1..Len(last.ret), k \in 1..Len(last.ret) :
              last.ret[j] = last.ret[k] => j = k
        /\ \A j \in 1..Len(last.ret) : \E i \in 1..Len(data) : last.ret[j] = data[i].record

\* a query that returned both of two Records whose birthdays differ in the
\* year only, each once
C4_Witness ==
    /\ last.op = "get_birthdays_per_week"
    /\ Len(data) = 2
    /\ Len(last.ret) = 2
    /\ data[1].record.birthday # data[2].record.birthday
    /\ SubSeq(data[1].record.birthday, 1, 6) = SubSeq(data[2].record.birthday, 1, 6)
    /\ today.day > 15

SpansNewYear == today.month = 12 /\ today.day + 7 > 31

\* C9 as stated: in December, when today + 7 days is in January,
\* get_birthdays_per_week returns no Record.
C9_NothingAcrossNewYear ==
    (last.op = "get_birthdays_per_week" /\ SpansNewYear) => last.ret = <<>>

InWeekAcrossNewYear(d, m) ==
    \/ m = 12 /\ d >= today.day
    \/ m = 1 /\ d < today.day

\* C9 amended: in December, when today + 7 days is in January,
\* get_birthdays_per_week returns exactly the Records whose birthday is in
\* December on a day >= today.day or in January on a day < today.day.
C9_DecemberAndJanuaryAcrossNewYear ==
    (last.op = "get_birthdays_per_week" /\ SpansNewYear) =>
        \A i \in 1..Len(data) :
            Returned(data[i].record) <=>
                /\ data[i].record.birthday # None
                /\ TypedFor(data[i].record.birthday, InWeekAcrossNewYear)

\* on 28 December, a query that returned a birthday of 31 December and a
\* birthday of 15 January
C9_Witness ==
    /\ last.op = "get_birthdays_per_week"
    /\ today.month = 12 /\ today.day = 28
    /\ Len(last.ret) = 2
    /\ last.ret[1].birthday = BirthdayString(31, 12, 1990)
    /\ last.ret[2].birthday = BirthdayString(15, 1, 2000)

(***************************************************************************)
(* Claims about Record (RecordSpec)                                        *)
(***************************************************************************)
Occurrences(phones, value) == {i \in 1..Len(phones) : phones[i] = value}

FirstOccurrence(phones, value) ==
    CHOOSE i \in Occurrences(phones, value) : \A j \in Occurrences(phones, value) : i <= j

\* C1: in every reachable state every Phone stored in every Record of the
\* AddressBook has a value of decimal digits only, of length <= 10.
C1_StoredPhonesValid ==
    \A i \in 1..Len(data) : \A j \in 1..Len(data[i].record.phones) :
        OnlyDecimalDigits(data[i].record.phones[j])

\* C5: delete_phone(value) removes the first occurrence of value and nothing
\* else, and leaves the list as it is when no phone equals value; it never raises.
C5_DeleteRemovesFirstOnly ==
    last.op = "delete_phone" =>
        /\ last.raised = NoException
        /\ Get(data, last.name).phones =
              IF Occurrences(last.before, last.phone) = {} THEN last.before
              ELSE RemoveAt(last.before, FirstOccurrence(last.before, last.phone))

\* C6 as stated: edit_phone(old, new) with a valid new changes the first phone
\* equal to old and no other phone; without a match the list is unchanged.
C6_EditChangesFirstOnly ==
    (last.op = "edit_phone" /\ validate_phone(last.new_phone)) =>
        /\ last.raised = NoException
        /\ Get(data, last.name).phones =
              IF Occurrences(last.before, last.old_phone) = {} THEN last.before
              ELSE [last.before EXCEPT
                       ![FirstOccurrence(last.before, last.old_phone)] = last.new_phone]

\* C6 amended: edit_phone(old, new) with a valid new changes every phone equal
\* to old to new, each at its position; the length and every other phone are
\* unchanged, and without a match the list is unchanged; it never raises.
C6_EditChangesEveryMatch ==
    (last.op = "edit_phone" /\ validate_phone(last.new_phone)) =>
        LET after == Get(data, last.name).phones
        IN  /\ last.raised = NoException
            /\ Len(after) = Len(last.before)
            /\ \A i \in 1..Len(after) :
                  after[i] = IF i \in Occurrences(last.before, last.old_phone)
                             THEN last.new_phone ELSE last.before[i]
            /\ Occurrences(last.before, last.old_phone) = {} => after = last.before

\* an edit_phone with a valid new value that found old twice
C6_Witness ==
    /\ last.op = "edit_phone"
    /\ validate_phone(last.new_phone)
    /\ last.new_phone # last.old_phone
    /\ Cardinality(Occurrences(last.before, last.old_phone)) >= 2
    /\ Occurrences(last.before, last.old_phone) # 1..Len(last.before)

(***************************************************************************)
(* Claims about AddressBook.add_record (Spec)                              *)
(***************************************************************************)
SomePhoneMalformed(phones) == \E i \in 1..Len(phones) : ~validate_phone(phones[i])

\* C2 as stated: an add_record call in which a phone or the birthday is
\* malformed raises the validation error and leaves the AddressBook as it was.
C2_MalformedCallFails ==
    [][(last'.op = "add_record"
          /\ (\/ SomePhoneMalformed(last'.phones)
              \/ (last'.birthday # None /\ ~validate_birthday(last'.birthday))))
       => (last'.raised = "ValueError" /\ data' = data)]_vars

\* C2 amended: an add_record call in which a phone is malformed, or the
\* birthday is a non-empty malformed string, raises the validation error and
\* leaves the AddressBook as it was; an empty birthday string is no birthday.
C2_FailedCallIsAtomic ==
    [][(last'.op = "add_record"
          /\ (\/ SomePhoneMalformed(last'.phones)
              \/ (Truthy(last'.birthday) /\ ~validate_birthday(last'.birthday))))
       => (last'.raised = "ValueError" /\ data' = data)]_vars

\* a failed add_record for a name the AddressBook holds with phones, the
\* malformed phone coming second
C2_Witness ==
    /\ last.op = "add_record"
    /\ last.raised = "ValueError"
    /\ Len(last.phones) = 2
    /\ validate_phone(last.phones[1])
    /\ ~validate_phone(last.phones[2])
    /\ Has(data, last.name)
    /\ Get(data, last.name).phones # <<>>

\* C8: a successful add_record(name, phones, birthday) leaves exactly one
\* Record under name, whose Name is name, whose phones are exactly the given
\* ones in order and whose birthday is the given one or unset; every other
\* key keeps its Record; the same call made again changes nothing.
C8_LastWriteWins ==
    [][(last'.op = "add_record" /\ last'.raised = NoException)
       => LET name == last'.name
          IN  /\ Cardinality({i \in 1..Len(data') : data'[i].key = name}) = 1
              /\ Get(data', name) =
                    [name |-> name, phones |-> last'.phones,
                     birthday |-> IF Truthy(last'.birthday) THEN last'.birthday ELSE None]
              /\ Keys(data') = Keys(data) \cup {name}
              /\ \A other \in Keys(data) \ {name} : Get(data', other) = Get(data, other)
              /\ add_record(data', name, last'.phones, last'.birthday).data = data'
      ]_vars

\* a successful add_record of two phones for Ann, whom the AddressBook held
\* before Bob was added
C8_Witness ==
    /\ last.op = "add_record"
    /\ last.raised = NoException
    /\ last.name = Ann
    /\ Len(last.phones) = 2
    /\ Len(data) = 2
    /\ data[1].key = Ann
    /\ Get(data, Bob).phones # <<>>

(***************************************************************************)
(* Command handlers, each wrapped by input_error: the AddressBook          *)
(* afterwards, and the exception raised or the value returned.  A returned *)
(* value is its text, with the places str.format fills left open, and the  *)
(* Records it shows.                                                       *)
(***************************************************************************)
Raises(d, exception) == [data |-> d, raised |-> exception, text |-> "", records |-> <<>>]

Returns(d, text, records) ==
    [data |-> d, raised |-> NoException, text |-> text, records |-> records]

\* the handler's return after the call r on the AddressBook, which may have raised
ReturnsAfter(r, text) ==
    IF r.raised # NoException THEN Raises(r.data, r.raised) ELSE Returns(r.data, text, <<>>)

\* input_error.inner: the value the wrapped handler returns
input_error(r) ==
    IF r.raised = NoException THEN r
    ELSE IF r.raised = "ValueError" THEN Returns(r.data, "Give me name and phone please.", <<>>)
    ELSE IF r.raised = "KeyError" THEN Returns(r.data, "Contact not found.", <<>>)
    ELSE IF r.raised = "IndexError"
         THEN Returns(r.data, "Invalid command format. Please check the input.", <<>>)
    ELSE Returns(r.data, "An error occurred: {str(e)}", <<>>)

add_contact(args, d) ==
    input_error(
        IF args = <<>> THEN Raises(d, "IndexError")
        ELSE ReturnsAfter(add_record(d, args[1], Tail(args), None), "Contact '{name}' added."))

remove_contact(args, d) ==
    input_error(
        IF args = <<>> THEN Raises(d, "IndexError")
        ELSE ReturnsAfter(delitem(d, args[1]), "Contact '{name}' removed."))

change_contact(args, d) ==
    input_error(
        IF Len(args) # 3 THEN Raises(d, "ValueError")
        ELSE IF ~Has(d, args[1]) THEN Raises(d, "KeyError")
        ELSE Returns(SetItem(d, args[1], edit_phone(Get(d, args[1]), args[2], args[3]).record),
                     "Phone '{old_phone}' edited to '{new_phone}' for contact '{name}'.", <<>>))

search_contact(args, d) ==
    input_error(
        IF args = <<>> THEN Raises(d, "IndexError")
        ELSE IF Has(d, args[1]) THEN Returns(d, "{record}", <<Get(d, args[1])>>)
        ELSE Returns(d, "None", <<>>))

RECURSIVE values(_)
values(d) == IF d = <<>> THEN <<>> ELSE <<Head(d).record>> \o values(Tail(d))

show_all(d) ==
    input_error(
        IF d # <<>> THEN Returns(d, "{records}", values(d))
        ELSE Returns(d, "No contacts found.", <<>>))

add_birthday(args, d) ==
    input_error(
        IF Len(args) # 2 THEN Raises(d, "ValueError")
        ELSE ReturnsAfter(add_record(d, args[1], <<>>, args[2]),
                          "Birthday '{birthday}' added to contact '{name}'."))

show_birthday(args, d) ==
    input_error(
        IF args = <<>> THEN Raises(d, "IndexError")
        ELSE IF Has(d, args[1]) /\ Get(d, args[1]).birthday # None
             THEN Returns(d, "Birthday of contact '{name}': {record.birthday}", <<Get(d, args[1])>>)
        ELSE Returns(d, "No birthday found for contact '{name}'.", <<>>))

\* the return of birthdays for the list get_birthdays_per_week gave
birthdays_return(d, found) ==
    IF found # <<>> THEN Returns(d, "{records}", found)
    ELSE Returns(d, "No birthdays coming up in the next week.", <<>>)

birthdays(args, d, day) == input_error(birthdays_return(d, get_birthdays_per_week(d, day)))

(***************************************************************************)
(* parse_input                                                             *)
(***************************************************************************)
\* str.lower of a character; the capitals are those of Lines
LowerChar(c) ==
    CASE c = "A" -> "a" [] c = "B" -> "b" [] c = "E" -> "e" [] c = "H" -> "h" [] OTHER -> c

RECURSIVE lower(_)
lower(s) == IF s = <<>> THEN <<>> ELSE <<LowerChar(Head(s))>> \o lower(Tail(s))

\* the length of the longest prefix of s without a blank
RECURSIVE WordLen(_)
WordLen(s) == IF s = <<>> \/ IsSpaceChar(Head(s)) THEN 0 ELSE 1 + WordLen(Tail(s))

\* str.split(): the words between runs of blanks
RECURSIVE split(_)
split(s) ==
    IF LStrip(s) = <<>> THEN <<>>
    ELSE <<SubSeq(LStrip(s), 1, WordLen(LStrip(s)))>>
         \o split(SubSeq(LStrip(s), WordLen(LStrip(s)) + 1, Len(LStrip(s))))

\* the rest that split(maxsplit=1) keeps after the first word w of s
RestAfter(s, w) == LStrip(SubSeq(s, w + 1, Len(s)))

\* str.split(maxsplit=1): the first word, and the rest as it stands when
\* there is more than blanks
split_maxsplit_1(s) ==
    IF LStrip(s) = <<>> THEN <<>>
    ELSE IF RestAfter(LStrip(s), WordLen(LStrip(s))) = <<>>
         THEN <<SubSeq(LStrip(s), 1, WordLen(LStrip(s)))>>
    ELSE <<SubSeq(LStrip(s), 1, WordLen(LStrip(s))), RestAfter(LStrip(s), WordLen(LStrip(s)))>>

Cmd_phone == <<"p", "h", "o", "n", "e">>
Cmd_delete == <<"d", "e", "l", "e", "t", "e">>
Cmd_add_birthday == <<"a", "d", "d", "-", "b", "i", "r", "t", "h", "d", "a", "y">>
Cmd_showbirthday == <<"s", "h", "o", "w", "b", "i", "r", "t", "h", "d", "a", "y">>
Cmd_all == <<"a", "l", "l">>
Cmd_birthdays == <<"b", "i", "r", "t", "h", "d", "a", "y", "s">>

Parsed(cmd, args) == [raised |-> NoException, cmd |-> cmd, args |-> args]

ParseError == [raised |-> "ValueError", cmd |-> None, args |-> <<>>]

\* parse_input from `cmd = cmd.strip().lower()` on, rest being args[0] or absent
parse_rest(cmd, has_rest, rest) ==
    IF has_rest
    THEN IF cmd \in {Cmd_phone, Cmd_delete}
         THEN IF Len(split(rest)) # 1 THEN ParseError ELSE Parsed(cmd, <<rest>>)
         ELSE IF cmd = Cmd_add_birthday THEN Parsed(cmd, split(rest))
         ELSE IF cmd = Cmd_showbirthday THEN Parsed(cmd, split(rest))
         ELSE IF Len(split(rest)) < 2 THEN ParseError
         ELSE Parsed(cmd, split(rest))
    ELSE Parsed(cmd, <<>>)

\* parse_input after user_input.split(maxsplit=1) gave parts; unpacking no
\* part into `cmd, *args` raises ValueError
parse_parts(parts) ==
    IF parts = <<>> THEN ParseError
    ELSE parse_rest(lower(strip(parts[1])), Len(parts) > 1, parts[Len(parts)])

parse_input(user_input) == parse_parts(split_maxsplit_1(user_input))

(***************************************************************************)
(* main: one step reads a line and handles it.  An exception that          *)
(* leaves main ends the process.                                           *)
(***************************************************************************)
ExitCommands ==
    {<<"c", "l", "o", "s", "e">>,
     <<"e", "x", "i", "t">>,
     <<"e", "n", "d">>,
     <<"f", "i", "n", "i", "s", "h">>,
     <<"b", "y", "e">>}
HelloCommands ==
    {<<"h", "e", "l", "l", "o">>,
     <<"h", "i">>}
AddCommands ==
    {<<"a", "d", "d">>,
     <<"n", "e", "w">>,
     <<"c", "r", "e", "a", "t", "e">>}
RemoveCommands ==
    {<<"r", "e", "m", "o", "v", "e">>,
     <<"d", "e", "l", "e", "t", "e">>}
ChangeCommands ==
    {<<"c", "h", "a", "n", "g", "e">>,
     <<"u", "p", "d", "a", "t", "e">>}
SearchCommands ==
    {<<"p", "h", "o", "n", "e">>,
     <<"c", "o", "n", "t", "a", "c", "t">>,
     <<"s", "e", "a", "r", "c", "h">>}

\* the lines typed at the prompt
Lines ==
     \* ""
    {<<>>,
     \* "  "
     <<" ", " ">>,
     \* "hello"
     <<"h", "e", "l", "l", "o">>,
     \* "Hi"
     <<"H", "i">>,
     \* "hello Ann"
     <<"h", "e", "l", "l", "o", " ", "A", "n", "n">>,
     \* "add"
     <<"a", "d", "d">>,
     \* "add Ann"
     <<"a", "d", "d", " ", "A", "n", "n">>,
     \* "add Ann 111"
     <<"a", "d", "d", " ", "A", "n", "n", " ", "1", "1", "1">>,
     \* "add Ann 111 222"
     <<"a", "d", "d", " ", "A", "n", "n", " ", "1", "1", "1", " ", "2", "2", "2">>,
     \* "add Ann 111 111"
     <<"a", "d", "d", " ", "A", "n", "n", " ", "1", "1", "1", " ", "1", "1", "1">>,
     \* "add Ann 111 12a"
     <<"a", "d", "d", " ", "A", "n", "n", " ", "1", "1", "1", " ", "1", "2", "a">>,
     \* "new Bob 222"
     <<"n", "e", "w", " ", "B", "o", "b", " ", "2", "2", "2">>,
     \* "remove Ann"
     <<"r", "e", "m", "o", "v", "e", " ", "A", "n", "n">>,
     \* "delete Ann"
     <<"d", "e", "l", "e", "t", "e", " ", "A", "n", "n">>,
     \* "delete Ann Bob"
     <<"d", "e", "l", "e", "t", "e", " ", "A", "n", "n", " ", "B", "o", "b">>,
     \* "change Ann 111 222"
     <<"c", "h", "a", "n", "g", "e", " ", "A", "n", "n", " ", "1", "1", "1", " ", "2", "2", "2">>,
     \* "change Ann 111 12a"
     <<"c", "h", "a", "n", "g", "e", " ", "A", "n", "n", " ", "1", "1", "1", " ", "1", "2", "a">>,
     \* "update Bob 222 111"
     <<"u", "p", "d", "a", "t", "e", " ", "B", "o", "b", " ", "2", "2", "2", " ", "1", "1", "1">>,
     \* "change Ann 111"
     <<"c", "h", "a", "n", "g", "e", " ", "A", "n", "n", " ", "1", "1", "1">>,
     \* "phone Ann"
     <<"p", "h", "o", "n", "e", " ", "A", "n", "n">>,
     \* "phone Ann "
     <<"p", "h", "o", "n", "e", " ", "A", "n", "n", " ">>,
     \* "search Ann 111"
     <<"s", "e", "a", "r", "c", "h", " ", "A", "n", "n", " ", "1", "1", "1">>,
     \* "all"
     <<"a", "l", "l">>,
     \* "add-birthday Ann 15.06.1990"
     <<"a", "d", "d", "-", "b", "i", "r", "t", "h", "d", "a", "y", " ", "A", "n", "n", " ", "1", "5", ".", "0", "6", ".", "1", "9", "9", "0">>,
     \* "add-birthday Bob 31.02.2020"
     <<"a", "d", "d", "-", "b", "i", "r", "t", "h", "d", "a", "y", " ", "B", "o", "b", " ", "3", "1", ".", "0", "2", ".", "2", "0", "2", "0">>,
     \* "add-birthday Ann"
     <<"a", "d", "d", "-", "b", "i", "r", "t", "h", "d", "a", "y", " ", "A", "n", "n">>,
     \* "showbirthday Ann"
     <<"s", "h", "o", "w", "b", "i", "r", "t", "h", "d", "a", "y", " ", "A", "n", "n">>,
     \* "showbirthday"
     <<"s", "h", "o", "w", "b", "i", "r", "t", "h", "d", "a", "y">>,
     \* "birthdays"
     <<"b", "i", "r", "t", "h", "d", "a", "y", "s">>,
     \* "list"
     <<"l", "i", "s", "t">>,
     \* "list all contacts"
     <<"l", "i", "s", "t", " ", "a", "l", "l", " ", "c", "o", "n", "t", "a", "c", "t", "s">>,
     \* "Exit"
     <<"E", "x", "i", "t">>,
     \* "bye"
     <<"b", "y", "e">>}

MainInit ==
    /\ data = <<>>
    /\ last = [op |-> "main"]
    /\ pc = "prompt"
    /\ today = Day(2024, 6, 10)

\* what input() returned and what the step printed
Printed(line, parsed, r) ==
    [op |-> "input", line |-> line, command |-> parsed.cmd, args |-> parsed.args,
     text |-> r.text, records |-> r.records]

\* print(handler(*args, address_book))
Handle(line, parsed, r) ==
    /\ data' = r.data
    /\ last' = Printed(line, parsed, r)
    /\ pc' = "prompt"
    /\ UNCHANGED today

\* the ValueError of parse_input leaves main
Crash(line) ==
    /\ pc' = "crashed"
    /\ last' = [op |-> "input", line |-> line, command |-> None, args |-> <<>>,
                text |-> "Traceback (most recent call last): ... ValueError", records |-> <<>>]
    /\ UNCHANGED <<data, today>>

Dispatch(line, parsed) ==
    IF parsed.raised # NoException THEN Crash(line)
    ELSE IF parsed.cmd \in ExitCommands
         THEN /\ pc' = "exited"
              /\ last' = Printed(line, parsed, Returns(data, "Good bye!", <<>>))
              /\ UNCHANGED <<data, today>>
    ELSE IF parsed.cmd \in HelloCommands
         THEN Handle(line, parsed, Returns(data, "How can I help you?", <<>>))
    ELSE IF parsed.cmd \in AddCommands
         THEN Handle(line, parsed, add_contact(parsed.args, data))
    ELSE IF parsed.cmd \in RemoveCommands
         THEN Handle(line, parsed, remove_contact(parsed.args, data))
    ELSE IF parsed.cmd \in ChangeCommands
         THEN Handle(line, parsed, change_contact(parsed.args, data))
    ELSE IF parsed.cmd \in SearchCommands
         THEN Handle(line, parsed, search_contact(parsed.args, data))
    ELSE IF parsed.cmd = Cmd_all
         THEN Handle(line, parsed, show_all(data))
    ELSE IF parsed.cmd = Cmd_add_birthday
         THEN Handle(line, parsed, add_birthday(parsed.args, data))
    ELSE IF parsed.cmd = Cmd_showbirthday
         THEN Handle(line, parsed, show_birthday(parsed.args, data))
    ELSE IF parsed.cmd = Cmd_birthdays
         THEN Handle(line, parsed, birthdays(parsed.args, data, today))
    ELSE Handle(line, parsed, Returns(data, "Invalid command.", <<>>))

main(line) ==
    /\ pc = "prompt"
    /\ Dispatch(line, parse_input(line))

MainNext == \E line \in Lines : main(line)

MainSpec == MainInit /\ [][MainNext]_vars

\* C3: the session ends on close, exit, end, finish or bye only: after any
\* other line (an empty line, too few or too many arguments, an invalid phone
\* or birthday, an unknown name) the loop has printed a message and is at the
\* prompt again.
C3_SessionEndsOnExitOnly ==
    pc # "prompt" => (pc = "exited" /\ last.command \in ExitCommands)

\* C10: a successful add-birthday for a contact the AddressBook holds leaves
\* the contact's phones as they were and sets its birthday; every other
\* contact is unchanged.
C10_AddBirthdayKeepsPhones ==
    [][(/\ last'.op = "input"
        /\ last'.command = Cmd_add_birthday
        /\ last'.text = "Birthday '{birthday}' added to contact '{name}'."
        /\ Has(data, last'.args[1]))
       => /\ Get(data', last'.args[1]).phones = Get(data, last'.args[1]).phones
          /\ Get(data', last'.args[1]).birthday = last'.args[2]
          /\ \A other \in Keys(data) \ {last'.args[1]} :
                Has(data', other) /\ Get(data', other) = Get(data, other)
      ]_vars

====
